---- MODULE Spec2Model ----
(***************************************************************************)
(* Model of the housing_recomender frontend: the localStorage-backed       *)
(* "saved properties" list (PropertyCard.tsx, the Saved page), the AI      *)
(* insights service with its cache (aiInsights.ts) and the home page's     *)
(* search (pages/index.tsx, second HomePage).                              *)
(*                                                                         *)
(* Text is modelled as a sequence of one-character strings, so that        *)
(* trim(), toLowerCase(), includes() and template literals are computed.   *)
(***************************************************************************)
EXTENDS Integers, Sequences, FiniteSets, TLC

\* ---------------------------------------------------------------- bounds
MaxId == 2          \* listing ids are 1..MaxId
MaxSaved == 3       \* the stored list is not grown beyond this length
MaxRequests == 2    \* at most this many GET /search requests are in flight
MaxCalls == 3       \* getCachedInsights is called at most this often
MaxFragments == 3   \* a city of the fallback specification has at most this many pieces

\* ------------------------------------------------------------------ state
VARIABLES
  stored,           \* localStorage item 'savedProperties'
  page,             \* the page that is mounted: "home" or "saved"
  listings,         \* HomePage state listings
  savedListings,    \* SavedPropertiesPage state savedListings
  cards,            \* mounted PropertyCards by React key: id -> [listing, isSaved]
  insightsCache,    \* AIInsightsService.insightsCache: cache key -> insights
  calls,            \* the getCachedInsights calls made so far, in call order
  formData,         \* HomePage state formData
  loading,          \* HomePage state loading
  error,            \* HomePage state error
  validationErrors, \* HomePage state validationErrors
  query,            \* router.query
  effectPending,    \* router.query has changed and the URL-load effect has not run yet
  requests,         \* the GET /search requests in flight, in the order issued
  fbProperty,       \* the request generateFallbackInsights is applied to
  fbInsights        \* what it returned, NoInsights before the call

savedVars == <<stored, savedListings>>
homeVars == <<page, listings, cards>>
insightsVars == <<insightsCache, calls>>
searchVars == <<formData, loading, error, validationErrors, query, effectPending, requests>>
fallbackVars == <<fbProperty, fbInsights>>

vars == <<savedVars, homeVars, insightsVars, searchVars, fallbackVars>>

\* ------------------------------------------------------- generic helpers
Range(s) == {s[i] : i \in 1..Len(s)}

SeqsUpTo(S, n) == UNION {[1..k -> S] : k \in 0..n}

\* ===================================================================
\* Text
\* ===================================================================
\* the value undefined; no text has an element longer than one character
Undefined == <<"undefined">>

\* how a template literal prints a value that may be undefined
Str(v) == IF v = Undefined THEN <<"u", "n", "d", "e", "f", "i", "n", "e", "d">> ELSE v

\* String.prototype.toLowerCase, for the letters that occur in the model
LowerChar(c) ==
  CASE c = "A" -> "a" [] c = "C" -> "c" [] c = "D" -> "d" [] c = "E" -> "e"
    [] c = "I" -> "i" [] c = "M" -> "m" [] c = "N" -> "n" [] c = "O" -> "o"
    [] c = "R" -> "r" [] c = "S" -> "s" [] c = "T" -> "t" [] c = "U" -> "u"
    [] c = "W" -> "w" [] c = "X" -> "x" [] c = "Y" -> "y"
    [] OTHER -> c

ToLowerCase(t) == [i \in 1..Len(t) |-> LowerChar(t[i])]

\* String.prototype.includes
Includes(t, term) ==
  \E i \in 1..(Len(t) - Len(term) + 1) : SubSeq(t, i, i + Len(term) - 1) = term

\* String.prototype.trim; the model's only white space is the blank
RECURSIVE TrimStart(_)
TrimStart(t) == IF t # <<>> /\ Head(t) = " " THEN TrimStart(Tail(t)) ELSE t

RECURSIVE TrimEnd(_)
TrimEnd(t) ==
  IF t # <<>> /\ t[Len(t)] = " " THEN TrimEnd(SubSeq(t, 1, Len(t) - 1)) ELSE t

Trim(t) == TrimEnd(TrimStart(t))

\* the texts of a sequence in a row
RECURSIVE Concat(_)
Concat(ts) == IF ts = <<>> THEN <<>> ELSE Head(ts) \o Concat(Tail(ts))

\* Array.prototype.join
RECURSIVE Join(_, _)
Join(ts, sep) ==
  IF ts = <<>> THEN <<>>
  ELSE IF Len(ts) = 1 THEN ts[1]
  ELSE ts[1] \o sep \o Join(Tail(ts), sep)

\* the index of the first c in t, 0 when there is none
FirstIndex(t, c) ==
  IF \E i \in 1..Len(t) : t[i] = c
  THEN CHOOSE i \in 1..Len(t) : t[i] = c /\ \A j \in 1..(i - 1) : t[j] # c
  ELSE 0

\* String.prototype.split at a one-character separator
RECURSIVE Split(_, _)
Split(t, c) ==
  IF FirstIndex(t, c) = 0 THEN <<t>>
  ELSE <<SubSeq(t, 1, FirstIndex(t, c) - 1)>>
         \o Split(SubSeq(t, FirstIndex(t, c) + 1, Len(t)), c)

\* a non-negative number printed in decimal
Digit(d) == <<"0", "1", "2", "3", "4", "5", "6", "7", "8", "9">>[d + 1]

RECURSIVE NumberToString(_)
NumberToString(n) ==
  IF n < 10 THEN <<Digit(n)>> ELSE NumberToString(n \div 10) \o <<Digit(n % 10)>>

\* ===================================================================
\* AI insights: services/aiInsights.ts
\* ===================================================================
UrbanTerms == {<<"d", "o", "w", "n", "t", "o", "w", "n">>,
               <<"c", "i", "t", "y">>,
               <<"m", "e", "t", "r", "o">>}

\* the city searched for the terms as it is written
IsUrbanCaseSensitive(city) == \E term \in UrbanTerms : Includes(city, term)

\* ['downtown', 'city', 'metro'].some(term => city.toLowerCase().includes(term))
IsUrban(city) == \E term \in UrbanTerms : Includes(ToLowerCase(city), term)

\* property.city || 'Unknown'
FallbackCity(property) ==
  IF property.city = Undefined \/ property.city = <<>>
  THEN <<"U", "n", "k", "n", "o", "w", "n">> ELSE property.city

generateFallbackInsights(property) ==
  LET city == FallbackCity(property)
      isUrban == IsUrban(city)
  IN  [neighborhood |-> (IF isUrban THEN <<"U", "r", "b", "a", "n">> ELSE <<"S", "u", "b", "u", "r", "b", "a", "n">>)
                          \o <<" ", "a", "r", "e", "a", " ", "i", "n", " ">> \o city,
       commute |-> <<"T", "y", "p", "i", "c", "a", "l", " ">> \o (IF isUrban THEN <<"u", "r", "b", "a", "n">> ELSE <<"s", "u", "b", "u", "r", "b", "a", "n">>)
                          \o <<" ", "c", "o", "m", "m", "u", "t", "e", " ", "p", "a", "t", "t", "e", "r", "n", "s">>,
       lifestyle |-> <<"S", "t", "a", "n", "d", "a", "r", "d", " ">> \o (IF isUrban THEN <<"c", "i", "t", "y">> ELSE <<"s", "u", "b", "u", "r", "b", "a", "n">>)
                          \o <<" ", "a", "m", "e", "n", "i", "t", "i", "e", "s", " ", "n", "e", "a", "r", "b", "y">>,
       schools |-> <<"R", "e", "s", "e", "a", "r", "c", "h", " ", "l", "o", "c", "a", "l", " ", "s", "c", "h", "o", "o", "l", " ", "d", "i", "s", "t", "r", "i", "c", "t", "s", " ", "i", "n", " ">> \o city]

\* undefined in a field that holds a number
UndefinedNumber == -1

\* the PropertyInsightRequest the insights effect of PropertyCard builds
PropertyData(listing, searchType) ==
  [city |-> listing.city,
   state |-> listing.state,
   address |-> IF listing.address # <<>> THEN listing.address
               ELSE IF listing.full_address # <<>> THEN listing.full_address
               ELSE Undefined,
   price |-> IF listing.price = 0 THEN UndefinedNumber ELSE listing.price,
   bedrooms |-> IF listing.bedrooms = 0 THEN UndefinedNumber ELSE listing.bedrooms,
   bathrooms |-> IF listing.bathrooms = 0 THEN UndefinedNumber ELSE listing.bathrooms,
   square_feet |-> IF listing.square_feet = 0 THEN UndefinedNumber
                   ELSE listing.square_feet,
   property_type |-> <<"p", "r", "o", "p", "e", "r", "t", "y">>,
   search_type |-> searchType]

\* `${property.city}-${property.state}-${property.bedrooms || 'any'}-${property.search_type || 'rent'}`
CacheKey(property) ==
  Str(property.city) \o <<"-">> \o Str(property.state) \o <<"-">>
    \o (IF property.bedrooms = UndefinedNumber \/ property.bedrooms = 0
        THEN <<"a", "n", "y">> ELSE NumberToString(property.bedrooms))
    \o <<"-">>
    \o (IF property.search_type = Undefined \/ property.search_type = <<>>
        THEN <<"r", "e", "n", "t">> ELSE property.search_type)

\* what the API answers to a POST /property-insights
ApiInsights ==
  {[neighborhood |-> <<"n", d>>, commute |-> <<"c", d>>,
    lifestyle |-> <<"l", d>>, schools |-> <<"s", d>>] : d \in {"1", "2"}}

NoInsights ==
  [neighborhood |-> <<>>, commute |-> <<>>, lifestyle |-> <<>>, schools |-> <<>>]

PostOk(data) == [ok |-> TRUE, data |-> data]
PostError == [ok |-> FALSE, data |-> NoInsights]

\* generatePropertyInsights without its catch block
generatePropertyInsightsNoCatch(property, response) ==
  IF response.ok
  THEN [settled |-> "fulfilled", value |-> response.data]
  ELSE [settled |-> "rejected", value |-> NoInsights]

\* generatePropertyInsights: how its promise settles when the POST has settled
generatePropertyInsights(property, response) ==
  IF response.ok
  THEN [settled |-> "fulfilled", value |-> response.data]
  ELSE [settled |-> "fulfilled", value |-> generateFallbackInsights(property)]

\* getCachedInsights up to its await: a hit returns the cached insights, a
\* miss issues the POST of generatePropertyInsights.
getCachedInsights(property) ==
  LET cacheKey == CacheKey(property)
  IN  /\ calls' = Append(calls,
           IF cacheKey \in DOMAIN insightsCache
           THEN [property |-> property, key |-> cacheKey, post |-> "none",
                 status |-> "fulfilled", value |-> insightsCache[cacheKey]]
           ELSE [property |-> property, key |-> cacheKey, post |-> "pending",
                 status |-> "pending", value |-> NoInsights])
      /\ UNCHANGED <<insightsCache, savedVars, homeVars, searchVars, fallbackVars>>

\* the insights effect of a PropertyCard mounted with listing and searchType
generateInsights(listing, searchType) ==
  /\ Len(calls) < MaxCalls
  /\ listing.city # <<>>
  /\ listing.state # <<>>
  /\ getCachedInsights(PropertyData(listing, searchType))

\* getCachedInsights after its await: the POST of call c has settled.
Settle(c, response) ==
  LET insights == generatePropertyInsights(calls[c].property, response)
  IN  /\ calls[c].post = "pending"
      /\ IF insights.settled = "fulfilled"
         THEN /\ insightsCache' =
                   [k \in DOMAIN insightsCache \cup {calls[c].key} |->
                      IF k = calls[c].key THEN insights.value ELSE insightsCache[k]]
              /\ calls' = [calls EXCEPT ![c].status = "fulfilled",
                                        ![c].value = insights.value,
                                        ![c].post = IF response.ok THEN "ok" ELSE "failed"]
         ELSE /\ calls' = [calls EXCEPT ![c].status = "rejected",
                                        ![c].post = "failed"]
              /\ UNCHANGED insightsCache
      /\ UNCHANGED <<savedVars, homeVars, searchVars, fallbackVars>>

PostSucceeds(c, data) == Settle(c, PostOk(data))

PostFails(c) == Settle(c, PostError)

\* ===================================================================
\* Saved properties: PropertyCard.tsx and the Saved page
\* ===================================================================
Ids == 1..MaxId
Titles == {"a", "b"}
\* A Listing as the API delivers it; title stands for every field but id.
Listing == [id : Ids, title : Titles]

\* localStorage.getItem of a key that is not set
NoItem == [item |-> "null"]
\* JSON.stringify / JSON.parse of an array of listings.  The listings come
\* from parsed JSON, so the text determines the array and back; the text is
\* kept apart from the array it encodes.
JSONstringify(arr) == [item |-> "text", json |-> arr]
JSONparse(text) == text.json

\* const savedProperties = JSON.parse(localStorage.getItem('savedProperties') || '[]')
ReadSavedProperties(item) == IF item = NoItem THEN <<>> ELSE JSONparse(item)

\* every() in the place of some()
SavedOnMountEvery(item, id) ==
  \A i \in 1..Len(ReadSavedProperties(item)) : ReadSavedProperties(item)[i].id = id

\* savedProperties.some(saved => saved.id === listing.id)
SavedOnMount(item, id) ==
  \E i \in 1..Len(ReadSavedProperties(item)) : ReadSavedProperties(item)[i].id = id

\* The listing prop of the card React keeps under key id: the first listing of
\* the rendered list with that id.
CardListing(shown, id) ==
  shown[CHOOSE i \in 1..Len(shown) :
          /\ shown[i].id = id
          /\ \A j \in 1..(i - 1) : shown[j].id # id]

\* Rendering a list of PropertyCards keyed by listing.id: a card whose key was
\* rendered before keeps its state, a new card runs its saved-on-mount effect.
RenderCards(shown, old, item) ==
  [id \in {l.id : l \in Range(shown)} |->
     [listing |-> CardListing(shown, id),
      isSaved |-> IF id \in DOMAIN old THEN old[id].isSaved
                  ELSE SavedOnMount(item, id)]]

NoCards == [id \in {} |-> FALSE]

DistinctIds(s) == \A i, j \in 1..Len(s) : s[i].id = s[j].id => i = j

\* setListings(ls) of the home page and the rendering of its cards
SetListings(ls) ==
  /\ listings' = ls
  /\ cards' = RenderCards(ls, cards, stored)

\* The home page is mounted: its state starts empty.
OpenHome ==
  /\ page = "saved"
  /\ page' = "home"
  /\ listings' = <<>>
  /\ cards' = NoCards
  /\ savedListings' = <<>>
  /\ UNCHANGED <<stored, insightsVars, searchVars, fallbackVars>>

\* A search of the home page has succeeded with the listings ls (the request
\* itself is left out: see PerformSearch and SearchSucceeds).
ShowResults(ls) ==
  /\ page = "home"
  /\ DistinctIds(ls)
  /\ SetListings(ls)
  /\ UNCHANGED <<page, savedVars, insightsVars, searchVars, fallbackVars>>

\* loadSavedProperties: the value of savedListings after the Saved page's
\* mount effect, from its initial value [].
LoadSavedProperties(item) == IF item # NoItem THEN JSONparse(item) ELSE <<>>

\* The Saved page is mounted.
OpenSaved ==
  /\ page = "home"
  /\ page' = "saved"
  /\ listings' = <<>>
  /\ savedListings' = LoadSavedProperties(stored)
  /\ cards' = RenderCards(LoadSavedProperties(stored), NoCards, stored)
  /\ UNCHANGED <<stored, insightsVars, searchVars, fallbackVars>>

\* the new listing put in front of the stored ones
ToggleStoredInFront(item, isSaved, listing) ==
  IF isSaved
  THEN LET NotThis(saved) == saved.id # listing.id
       IN  JSONstringify(SelectSeq(ReadSavedProperties(item), NotThis))
  ELSE JSONstringify(<<listing>> \o ReadSavedProperties(item))

\* the value toggleSaved writes to localStorage
ToggleStored(item, isSaved, listing) ==
  IF isSaved
  THEN LET NotThis(saved) == saved.id # listing.id
       IN  JSONstringify(SelectSeq(ReadSavedProperties(item), NotThis))
  ELSE JSONstringify(Append(ReadSavedProperties(item), listing))

\* toggleSaved of the mounted card with key id
ToggleSaved(id) ==
  /\ id \in DOMAIN cards
  /\ cards[id].isSaved \/ Len(ReadSavedProperties(stored)) < MaxSaved
  /\ stored' = ToggleStored(stored, cards[id].isSaved, cards[id].listing)
  /\ cards' = [cards EXCEPT ![id].isSaved = ~cards[id].isSaved]
  /\ UNCHANGED <<page, listings, savedListings, insightsVars, searchVars, fallbackVars>>

RemoveFiltered(shown, propertyId) ==
  LET Other(listing) == listing.id # propertyId
  IN  SelectSeq(shown, Other)

\* removeSavedProperty(propertyId), the button next to a card of the Saved page
RemoveSavedProperty(propertyId) ==
  /\ page = "saved"
  /\ \E i \in 1..Len(savedListings) : savedListings[i].id = propertyId
  /\ savedListings' = RemoveFiltered(savedListings, propertyId)
  /\ stored' = JSONstringify(RemoveFiltered(savedListings, propertyId))
  /\ cards' = RenderCards(RemoveFiltered(savedListings, propertyId), cards, stored')
  /\ UNCHANGED <<page, listings, insightsVars, searchVars, fallbackVars>>

\* Clear All, confirmed
ClearAll ==
  /\ page = "saved"
  /\ savedListings # <<>>
  /\ savedListings' = <<>>
  /\ stored' = NoItem
  /\ cards' = NoCards
  /\ UNCHANGED <<page, listings, insightsVars, searchVars, fallbackVars>>

\* ===================================================================
\* Search: pages/index.tsx, the HomePage with SearchForm
\* ===================================================================
FieldNames == {"city", "state", "bedrooms", "max_price", "search_type", "property_type"}

\* a text value in a condition, as in `if (value)` or `value || other`
Truthy(v) == v # Undefined /\ v # <<>>

OrElse(v, other) == IF Truthy(v) THEN v ELSE other

\* query.name of router.query
QueryField(q, name) == IF name \in DOMAIN q THEN q[name] ELSE Undefined

\* the condition of the URL-load effect
HasSearchParams(q) == \E name \in FieldNames : Truthy(QueryField(q, name))

\* urlFormData with no default for search_type
UrlFormDataNoDefault(q) ==
  [city |-> OrElse(QueryField(q, "city"), <<>>),
   state |-> OrElse(QueryField(q, "state"), <<>>),
   bedrooms |-> OrElse(QueryField(q, "bedrooms"), <<>>),
   max_price |-> OrElse(QueryField(q, "max_price"), <<>>),
   search_type |-> OrElse(QueryField(q, "search_type"), <<>>),
   property_type |-> OrElse(QueryField(q, "property_type"), <<>>)]

\* urlFormData of the URL-load effect
UrlFormData(q) ==
  [city |-> OrElse(QueryField(q, "city"), <<>>),
   state |-> OrElse(QueryField(q, "state"), <<>>),
   bedrooms |-> OrElse(QueryField(q, "bedrooms"), <<>>),
   max_price |-> OrElse(QueryField(q, "max_price"), <<>>),
   search_type |-> OrElse(QueryField(q, "search_type"), <<"r", "e", "n", "t">>),
   property_type |-> OrElse(QueryField(q, "property_type"), <<>>)]

\* ------------------------------------------------- the URL's query string
\* the order of Object.entries(searchData)
FieldOrder == <<"city", "state", "bedrooms", "max_price", "search_type", "property_type">>

\* a field name as text
FieldText(name) ==
  CASE name = "city" -> <<"c", "i", "t", "y">>
    [] name = "state" -> <<"s", "t", "a", "t", "e">>
    [] name = "bedrooms" -> <<"b", "e", "d", "r", "o", "o", "m", "s">>
    [] name = "max_price" -> <<"m", "a", "x", "_", "p", "r", "i", "c", "e">>
    [] name = "search_type" -> <<"s", "e", "a", "r", "c", "h", "_", "t", "y", "p", "e">>
    [] name = "property_type" -> <<"p", "r", "o", "p", "e", "r", "t", "y", "_", "t", "y", "p", "e">>
    [] OTHER -> <<"?">>

\* the field a key of the query string names; "other" for any other key
NameOf(key) ==
  IF \E n \in FieldNames : FieldText(n) = key
  THEN CHOOSE n \in FieldNames : FieldText(n) = key
  ELSE "other"

\* a character written into the query string as it is
EncodeCharPlain(c) == <<c>>

\* URLSearchParams.toString: a character of a value in the query string
EncodeChar(c) ==
  CASE c = " " -> <<"+">>
    [] c = "&" -> <<"%", "2", "6">>
    [] c = "=" -> <<"%", "3", "D">>
    [] c = "+" -> <<"%", "2", "B">>
    [] c = "%" -> <<"%", "2", "5">>
    [] OTHER -> <<c>>

Encode(t) == Concat([i \in 1..Len(t) |-> EncodeChar(t[i])])

\* the character a percent escape stands for
Unescape(hi, lo) ==
  CASE hi = "2" /\ lo = "6" -> "&"
    [] hi = "3" /\ lo = "D" -> "="
    [] hi = "2" /\ lo = "B" -> "+"
    [] hi = "2" /\ lo = "5" -> "%"
    [] hi = "2" /\ lo = "0" -> " "
    [] OTHER -> "?"

\* the router's decoding of a key or value of the query string
RECURSIVE Decode(_)
Decode(t) ==
  IF t = <<>> THEN <<>>
  ELSE IF Head(t) = "+" THEN <<" ">> \o Decode(Tail(t))
  ELSE IF Head(t) = "%" /\ Len(t) >= 3
       THEN <<Unescape(t[2], t[3])>> \o Decode(SubSeq(t, 4, Len(t)))
  ELSE <<Head(t)>> \o Decode(Tail(t))

\* params.toString() of updateURL: the non-empty fields as key=value, joined by &
QueryString(searchData) ==
  LET NonEmpty(n) == Truthy(searchData[n])
      names == SelectSeq(FieldOrder, NonEmpty)
  IN  Join([i \in 1..Len(names) |->
              FieldText(names[i]) \o <<"=">> \o Encode(searchData[names[i]])],
           <<"&">>)

\* the key and the value of one key=value pair
PairKey(pair) ==
  IF FirstIndex(pair, "=") = 0 THEN Decode(pair)
  ELSE Decode(SubSeq(pair, 1, FirstIndex(pair, "=") - 1))

PairValue(pair) ==
  IF FirstIndex(pair, "=") = 0 THEN <<>>
  ELSE Decode(SubSeq(pair, FirstIndex(pair, "=") + 1, Len(pair)))

\* router.query of a URL with the query string qs
ParseQuery(qs) ==
  LET pairs == IF qs = <<>> THEN <<>> ELSE Split(qs, "&")
  IN  [name \in {NameOf(PairKey(pairs[i])) : i \in 1..Len(pairs)} |->
         PairValue(pairs[CHOOSE i \in 1..Len(pairs) :
                           /\ NameOf(PairKey(pairs[i])) = name
                           /\ \A j \in 1..(i - 1) : NameOf(PairKey(pairs[j])) # name])]

\* updateURL: router.query after router.replace of the URL built from searchData
UpdateURLQuery(searchData) == ParseQuery(QueryString(searchData))

\* the name performSearch sends a form field under
ParamName(name) == IF name = "state" THEN "state_code" ELSE name

\* the query parameters of the GET /search request of performSearch
SearchParams(searchData) ==
  [param \in {ParamName(n) : n \in {m \in FieldNames : Truthy(searchData[m])}} |->
     searchData[IF param = "state_code" THEN "state" ELSE param]]

CityMessage == "Please enter a city"
StateMessage == "Please enter a state"
SearchFailedMessage ==
  "Failed to search listings. Please make sure your backend is running on http://127.0.0.1:8000"

\* validateForm without trim()
ValidateErrorsNoTrim(data) ==
  [k \in {n \in {"city", "state"} : data[n] = <<>>} |->
     IF k = "city" THEN CityMessage ELSE StateMessage]

\* the errors object validateForm builds
ValidateErrors(data) ==
  [k \in {n \in {"city", "state"} : Trim(data[n]) = <<>>} |->
     IF k = "city" THEN CityMessage ELSE StateMessage]

\* performSearch up to its await: the GET /search request is issued.  A
\* request in flight also records the listings shown when it was issued and,
\* in newer, the response of the latest search issued after it that has
\* succeeded since the last failure (empty when there is none).
PerformSearch(searchData) ==
  /\ Len(requests) < MaxRequests
  /\ loading' = TRUE
  /\ error' = ""
  /\ requests' = Append(requests, [params |-> SearchParams(searchData),
                                   listingsBefore |-> listings,
                                   newer |-> <<>>])

RemoveAt(s, i) == SubSeq(s, 1, i - 1) \o SubSeq(s, i + 1, Len(s))

\* performSearch after its await, the request r has succeeded with the
\* listings ls (response.data.listings || response.data)
SearchSucceeds(r, ls) ==
  /\ r \in 1..Len(requests)
  /\ page = "home"
  /\ SetListings(ls)
  /\ loading' = FALSE
  /\ requests' =
       RemoveAt([i \in 1..Len(requests) |->
                   IF i < r /\ requests[r].newer = <<>>
                   THEN [requests[i] EXCEPT !.newer = <<ls>>]
                   ELSE requests[i]], r)
  /\ UNCHANGED <<page, formData, error, validationErrors, query, effectPending>>
  /\ UNCHANGED <<savedVars, insightsVars, fallbackVars>>

\* performSearch after its await, the request r has failed
SearchFails(r) ==
  /\ r \in 1..Len(requests)
  /\ page = "home"
  /\ error' = SearchFailedMessage
  /\ loading' = FALSE
  /\ requests' =
       RemoveAt([i \in 1..Len(requests) |->
                   [requests[i] EXCEPT !.newer = <<>>]], r)
  /\ UNCHANGED <<formData, validationErrors, query, effectPending>>
  /\ UNCHANGED <<savedVars, homeVars, insightsVars, fallbackVars>>

\* The URL is loaded or changed from outside the page (address bar, back,
\* forward): router.query becomes q.
Navigate(q) ==
  /\ page = "home"
  /\ query' = q
  /\ effectPending' = TRUE
  /\ UNCHANGED <<formData, loading, error, validationErrors, requests>>
  /\ UNCHANGED <<savedVars, homeVars, insightsVars, fallbackVars>>

\* the URL-load effect, run after router.query has changed
UrlLoadEffect ==
  /\ page = "home"
  /\ effectPending
  /\ effectPending' = FALSE
  /\ IF HasSearchParams(query)
     THEN /\ formData' = UrlFormData(query)
          /\ PerformSearch(UrlFormData(query))
     ELSE UNCHANGED <<formData, loading, error, requests>>
  /\ UNCHANGED <<validationErrors, query>>
  /\ UNCHANGED <<savedVars, homeVars, insightsVars, fallbackVars>>

\* every validation error cleared
ClearErrorOfAll(errors, name) ==
  IF name \in DOMAIN errors /\ errors[name] # ""
  THEN [k \in DOMAIN errors |-> ""]
  ELSE errors

\* the validation errors after the field name has been edited
ClearErrorOf(errors, name) ==
  IF name \in DOMAIN errors /\ errors[name] # ""
  THEN [errors EXCEPT ![name] = ""]
  ELSE errors

\* handleInputChange of the form field name
HandleInputChange(name, value) ==
  /\ page = "home"
  /\ formData' = [formData EXCEPT ![name] = value]
  /\ validationErrors' = ClearErrorOf(validationErrors, name)
  /\ UNCHANGED <<loading, error, query, effectPending, requests>>
  /\ UNCHANGED <<savedVars, homeVars, insightsVars, fallbackVars>>

\* handleSubmit; the submit button is disabled while loading.  router.replace
\* delivers a new router.query, on which the URL-load effect depends; whether
\* the effect runs again for a query with the same entries is left open.
HandleSubmit ==
  /\ page = "home"
  /\ ~loading
  /\ validationErrors' = ValidateErrors(formData)
  /\ IF DOMAIN ValidateErrors(formData) # {}
     THEN /\ error' = ""
          /\ UNCHANGED <<loading, query, effectPending, requests>>
     ELSE /\ query' = UpdateURLQuery(formData)
          /\ effectPending' \in
               IF effectPending \/ UpdateURLQuery(formData) # query
               THEN {TRUE} ELSE BOOLEAN
          /\ PerformSearch(formData)
  /\ UNCHANGED formData
  /\ UNCHANGED <<savedVars, homeVars, insightsVars, fallbackVars>>

\* updateURL(formData) on a freshly opened page: router.replace delivers the
\* query of the URL built from the form data
UpdateURL ==
  /\ page = "home"
  /\ requests = <<>>
  /\ ~effectPending
  /\ query' = UpdateURLQuery(formData)
  /\ effectPending' \in
       IF UpdateURLQuery(formData) # query THEN {TRUE} ELSE BOOLEAN
  /\ UNCHANGED <<formData, loading, error, validationErrors, requests>>
  /\ UNCHANGED <<savedVars, homeVars, insightsVars, fallbackVars>>

\* ===================================================================
\* Specifications
\* ===================================================================
NextSaved ==
  \/ OpenHome
  \/ \E ls \in SeqsUpTo(Listing, MaxId) : ShowResults(ls)
  \/ OpenSaved
  \/ \E id \in Ids : ToggleSaved(id)
  \/ \E id \in Ids : RemoveSavedProperty(id)
  \/ ClearAll

\* the listings the cards of the insights specification are mounted with
InsightListings ==
  {[city |-> <<"A", "-", "T">>, state |-> <<"X">>, address |-> <<"1">>,
    full_address |-> <<>>, price |-> 1000, bedrooms |-> 2, bathrooms |-> 1,
    square_feet |-> 800],
   [city |-> <<"A">>, state |-> <<"T", "-", "X">>, address |-> <<>>,
    full_address |-> <<"2">>, price |-> 2000, bedrooms |-> 2, bathrooms |-> 2,
    square_feet |-> 900],
   [city |-> <<"A">>, state |-> <<"X">>, address |-> <<>>,
    full_address |-> <<>>, price |-> 0, bedrooms |-> 0, bathrooms |-> 0,
    square_feet |-> 0],
   [city |-> <<"A">>, state |-> <<"X">>, address |-> <<"3">>,
    full_address |-> <<>>, price |-> 1500, bedrooms |-> 0, bathrooms |-> 1,
    square_feet |-> 700],
   [city |-> <<>>, state |-> <<"X">>, address |-> <<"4">>,
    full_address |-> <<>>, price |-> 1000, bedrooms |-> 2, bathrooms |-> 1,
    square_feet |-> 800]}

SearchTypes == {<<"r", "e", "n", "t">>, <<"b", "u", "y">>}

NextInsights ==
  \/ \E listing \in InsightListings, searchType \in SearchTypes :
       generateInsights(listing, searchType)
  \/ \E c \in 1..Len(calls), data \in ApiInsights : PostSucceeds(c, data)
  \/ \E c \in 1..Len(calls) : PostFails(c)

\* what the user types into the form fields
FormInputs ==
  [city |-> {<<>>, <<" ">>, <<"A">>}, state |-> {<<>>, <<" ">>, <<"T">>}]

\* the queries of the URLs the page is opened with
UrlQueries ==
  {[k \in {} |-> <<>>],
   [bedrooms |-> <<"2">>],
   [city |-> <<>>],
   [city |-> <<"A">>, state |-> <<"T">>, search_type |-> <<"b", "u", "y">>]}

\* the listings the API answers a search with
SearchResults == {<<>>, <<[id |-> 1, title |-> "a"]>>}

NextSearch ==
  \/ \E q \in UrlQueries : Navigate(q)
  \/ UrlLoadEffect
  \/ \E name \in DOMAIN FormInputs :
       \E value \in FormInputs[name] : HandleInputChange(name, value)
  \/ HandleSubmit
  \/ \E r \in 1..MaxRequests, ls \in SearchResults : SearchSucceeds(r, ls)
  \/ \E r \in 1..MaxRequests : SearchFails(r)

\* the cities generateFallbackInsights is tried on: up to MaxFragments of
\* these pieces in a row, and a request without a city
CityFragments ==
  {<<"C", "i", "t", "y">>,
   <<"c", "i", "t", "y">>,
   <<"c", "i", "t">>,
   <<"y">>,
   <<"M", "e", "t", "r", "o">>,
   <<"M", "E", "T", "R", "O">>,
   <<"m", "e", "t">>,
   <<"r", "o">>,
   <<"D", "o", "w", "n">>,
   <<"t", "o", "w", "n">>,
   <<"d", "o", "w", "n">>,
   <<" ">>,
   <<"A">>}

FallbackCities ==
  {Concat(ts) : ts \in SeqsUpTo(CityFragments, MaxFragments)} \cup {Undefined}

\* generateFallbackInsights is called, as the catch block of
\* generatePropertyInsights calls it
CallFallback ==
  /\ fbInsights = NoInsights
  /\ fbInsights' = generateFallbackInsights(fbProperty)
  /\ UNCHANGED <<fbProperty, savedVars, homeVars, insightsVars, searchVars>>

\* The home page is mounted, nothing is stored, no request has been made.
Init ==
  /\ stored = NoItem
  /\ savedListings = <<>>
  /\ page = "home"
  /\ listings = <<>>
  /\ cards = NoCards
  /\ insightsCache = [k \in {} |-> NoInsights]
  /\ calls = <<>>
  /\ formData = [city |-> <<>>, state |-> <<>>, bedrooms |-> <<>>,
                 max_price |-> <<>>, search_type |-> <<"r", "e", "n", "t">>,
                 property_type |-> <<>>]
  /\ loading = FALSE
  /\ error = ""
  /\ validationErrors = [k \in {} |-> ""]
  /\ query = [k \in {} |-> <<>>]
  /\ effectPending = FALSE
  /\ requests = <<>>
  /\ fbProperty = [city |-> <<>>]
  /\ fbInsights = NoInsights

\* The same, with the request generateFallbackInsights is about to be called
\* with.
InitFallback ==
  /\ stored = NoItem
  /\ savedListings = <<>>
  /\ page = "home"
  /\ listings = <<>>
  /\ cards = NoCards
  /\ insightsCache = [k \in {} |-> NoInsights]
  /\ calls = <<>>
  /\ formData = [city |-> <<>>, state |-> <<>>, bedrooms |-> <<>>,
                 max_price |-> <<>>, search_type |-> <<"r", "e", "n", "t">>,
                 property_type |-> <<>>]
  /\ loading = FALSE
  /\ error = ""
  /\ validationErrors = [k \in {} |-> ""]
  /\ query = [k \in {} |-> <<>>]
  /\ effectPending = FALSE
  /\ requests = <<>>
  /\ fbProperty \in [city : FallbackCities]
  /\ fbInsights = NoInsights

\* the form data updateURL is tried on; the form's select offers rent and buy
UrlFormInputs ==
  [city : {<<>>, <<"A">>, <<"a", " ", "b">>, <<"a", "&", "b", "=", "c">>, <<"+", "%">>},
   state : {<<>>, <<"T">>},
   bedrooms : {<<>>, <<"2">>},
   max_price : {<<>>, <<"9">>},
   search_type : {<<"r", "e", "n", "t">>, <<"b", "u", "y">>},
   property_type : {<<>>, <<"x">>}]

\* The home page with a filled form, before the URL is updated.
InitUrl ==
  /\ stored = NoItem
  /\ savedListings = <<>>
  /\ page = "home"
  /\ listings = <<>>
  /\ cards = NoCards
  /\ insightsCache = [k \in {} |-> NoInsights]
  /\ calls = <<>>
  /\ formData \in UrlFormInputs
  /\ loading = FALSE
  /\ error = ""
  /\ validationErrors = [k \in {} |-> ""]
  /\ query = [k \in {} |-> <<>>]
  /\ effectPending = FALSE
  /\ requests = <<>>
  /\ fbProperty = [city |-> <<>>]
  /\ fbInsights = NoInsights

NextUrl ==
  \/ UpdateURL
  \/ UrlLoadEffect

\* the form data written into the URL and read back from it
SpecUrl == InitUrl /\ [][NextUrl]_vars

\* the home page opened at / and used through its form only
NextSubmit ==
  \/ \E name \in DOMAIN FormInputs :
       \E value \in FormInputs[name] : HandleInputChange(name, value)
  \/ HandleSubmit
  \/ UrlLoadEffect
  \/ \E r \in 1..MaxRequests, ls \in SearchResults : SearchSucceeds(r, ls)
  \/ \E r \in 1..MaxRequests : SearchFails(r)

SpecSubmit == Init /\ [][NextSubmit]_vars

\* the home page's search
SpecSearch == Init /\ [][NextSearch]_vars

\* generateFallbackInsights on its own
SpecFallback == InitFallback /\ [][CallFallback]_vars

\* the saved properties, with the home page's results arriving
SpecSaved == Init /\ [][NextSaved]_vars

\* the insights service
SpecInsights == Init /\ [][NextInsights]_vars

\* ------------------------------------------------- saved properties: claims
\* The array the stored item encodes ([] when the item is not set).
StoredList == IF stored.item = "text" THEN stored.json ELSE <<>>

IdsOf(s) == {s[i].id : i \in 1..Len(s)}

\* The entries of s whose id is not id, in their order.
RECURSIVE OthersOf(_, _)
OthersOf(s, id) ==
  IF Len(s) = 0 THEN <<>>
  ELSE OthersOf(SubSeq(s, 1, Len(s) - 1), id)
         \o (IF s[Len(s)].id = id THEN <<>> ELSE <<s[Len(s)]>>)

\* C1: the stored 'savedProperties' list never contains two entries with the
\* same id, under any sequence of toggleSaved, removeSavedProperty and Clear
\* All from an empty stored list.
C1_NoDuplicateId ==
  \A i, j \in 1..Len(StoredList) : StoredList[i].id = StoredList[j].id => i = j

\* what a toggleSaved step of the card id does to the stored list and the card
C7_ToggleStep(id) ==
  LET before == StoredList
      after  == StoredList'
      card   == cards[id]
  IN  /\ stored'.item = "text"
      /\ OthersOf(after, id) = OthersOf(before, id)
      /\ ~card.isSaved =>
           /\ Len(after) = Len(before) + 1
           /\ after[Len(after)] = card.listing
           /\ SubSeq(after, 1, Len(before)) = before
           /\ cards'[id].isSaved
      /\ card.isSaved =>
           /\ id \notin IdsOf(after)
           /\ ~cards'[id].isSaved

\* C7: toggleSaved on a card that is not saved appends the card's listing to
\* the end of the stored list and sets isSaved; on a saved card it removes
\* every stored entry with the listing's id and clears isSaved; entries with
\* other ids keep their relative order in both cases.
C7_ToggleSaved == [][\A id \in Ids : ToggleSaved(id) => C7_ToggleStep(id)]_vars

\* C7 witness: toggleSaved has appended a card's listing behind two stored
\* entries, the first of another id.
C7_Witness ==
  /\ page = "home"
  /\ Len(StoredList) = 3
  /\ \E id \in DOMAIN cards :
       /\ cards[id].isSaved
       /\ StoredList[3] = cards[id].listing
       /\ StoredList[1].id # id

\* what a toggleSaved step of the card id leaves in the stored item
C8_Written(id) ==
  /\ cards'[id].isSaved =>
       \E i \in 1..Len(StoredList') : StoredList'[i] = cards[id].listing
  /\ ~cards'[id].isSaved => id \notin IdsOf(StoredList')

\* a card that the step has mounted starts saved exactly when its id is stored
C8_Mounted ==
  \A id \in DOMAIN cards' :
    (page' # page \/ id \notin DOMAIN cards) =>
       (cards'[id].isSaved <=> id \in IdsOf(StoredList'))

\* C8: a bookmark survives through storage.  A toggleSaved that saves leaves
\* the listing in the stored item and one that unsaves leaves no entry of its
\* id there; a PropertyCard mounted afterwards starts with isSaved true exactly
\* when the stored item has an entry of its id, and the Saved page loaded
\* afterwards holds exactly the stored entries.
C8_BookmarkSurvives ==
  [][/\ \A id \in Ids : ToggleSaved(id) => C8_Written(id)
     /\ C8_Mounted
     /\ OpenSaved => savedListings' = StoredList']_vars

\* C8 witness: the Saved page lists a listing that a card saved on the home
\* page, and its newly mounted card starts saved.
C8_Witness ==
  /\ page = "saved"
  /\ savedListings # <<>>
  /\ savedListings = StoredList
  /\ \A id \in IdsOf(savedListings) : id \in DOMAIN cards /\ cards[id].isSaved

\* ------------------------------------------------------- insights: claims
\* C2: generatePropertyInsights never rejects: a call whose POST failed is
\* fulfilled with the fallback insights of its request, so every settled
\* getCachedInsights call is fulfilled with a value.
C2_NeverRejects ==
  \A c \in 1..Len(calls) :
    /\ calls[c].status # "rejected"
    /\ calls[c].post = "failed" =>
         /\ calls[c].status = "fulfilled"
         /\ calls[c].value = generateFallbackInsights(calls[c].property)
    /\ calls[c].post \in {"ok", "none"} =>
         /\ calls[c].status = "fulfilled"
         /\ calls[c].value # NoInsights

\* C2 witness: a call whose POST failed has been fulfilled.
C2_Witness ==
  \E c \in 1..Len(calls) : calls[c].post = "failed" /\ calls[c].status = "fulfilled"

\* a call that starts returns what the completed calls of its key returned
C5_LaterCall ==
  Len(calls') = Len(calls) + 1 =>
    LET later == calls'[Len(calls')]
    IN  \A c \in 1..Len(calls) :
          (calls[c].status = "fulfilled" /\ calls[c].key = later.key) =>
            /\ later.post = "none"
            /\ later.status = "fulfilled"
            /\ later.value = calls[c].value

\* a step keeps every cache entry
C5_EntryKept ==
  \A k \in DOMAIN insightsCache :
    k \in DOMAIN insightsCache' /\ insightsCache'[k] = insightsCache[k]

\* C5: once a getCachedInsights call for a cache key has completed, every
\* later call with the same key returns that same value and issues no POST,
\* and no cache entry is ever evicted or overwritten.
C5_CompletedCallIsFinal == [][C5_LaterCall /\ C5_EntryKept]_vars

\* C6: under any interleaving of getCachedInsights calls, at most one POST to
\* /property-insights is issued per cache key.
C6_OnePostPerKey ==
  \A c, d \in 1..Len(calls) :
    (calls[c].key = calls[d].key /\ calls[c].post # "none" /\ calls[d].post # "none")
      => c = d

\* ------------------------------------------------ fallback insights: claims
\* term occurs in t
C3_Has(t, term) == \E i \in 1..Len(t) : \E j \in i..Len(t) : SubSeq(t, i, j) = term

C3_Small ==
  "A" :> "a" @@ "C" :> "c" @@ "D" :> "d" @@ "E" :> "e" @@ "I" :> "i" @@ "M" :> "m"
    @@ "N" :> "n" @@ "O" :> "o" @@ "R" :> "r" @@ "T" :> "t" @@ "W" :> "w" @@ "Y" :> "y"

C3_Lower(t) ==
  [i \in 1..Len(t) |-> IF t[i] \in DOMAIN C3_Small THEN C3_Small[t[i]] ELSE t[i]]

C3_City ==
  IF fbProperty.city = Undefined \/ Len(fbProperty.city) = 0
  THEN <<"U", "n", "k", "n", "o", "w", "n">> ELSE fbProperty.city

C3_Urban ==
  \/ C3_Has(C3_Lower(C3_City), <<"d", "o", "w", "n", "t", "o", "w", "n">>)
  \/ C3_Has(C3_Lower(C3_City), <<"c", "i", "t", "y">>)
  \/ C3_Has(C3_Lower(C3_City), <<"m", "e", "t", "r", "o">>)

C3_UrbanVariant ==
  [neighborhood |-> <<"U", "r", "b", "a", "n", " ", "a", "r", "e", "a", " ", "i", "n", " ">> \o C3_City,
   commute |-> <<"T", "y", "p", "i", "c", "a", "l", " ", "u", "r", "b", "a", "n", " ", "c", "o", "m", "m", "u", "t", "e", " ", "p", "a", "t", "t", "e", "r", "n", "s">>,
   lifestyle |-> <<"S", "t", "a", "n", "d", "a", "r", "d", " ", "c", "i", "t", "y", " ", "a", "m", "e", "n", "i", "t", "i", "e", "s", " ", "n", "e", "a", "r", "b", "y">>,
   schools |-> <<"R", "e", "s", "e", "a", "r", "c", "h", " ", "l", "o", "c", "a", "l", " ", "s", "c", "h", "o", "o", "l", " ", "d", "i", "s", "t", "r", "i", "c", "t", "s", " ", "i", "n", " ">> \o C3_City]

C3_SuburbanVariant ==
  [neighborhood |-> <<"S", "u", "b", "u", "r", "b", "a", "n", " ", "a", "r", "e", "a", " ", "i", "n", " ">> \o C3_City,
   commute |-> <<"T", "y", "p", "i", "c", "a", "l", " ", "s", "u", "b", "u", "r", "b", "a", "n", " ", "c", "o", "m", "m", "u", "t", "e", " ", "p", "a", "t", "t", "e", "r", "n", "s">>,
   lifestyle |-> <<"S", "t", "a", "n", "d", "a", "r", "d", " ", "s", "u", "b", "u", "r", "b", "a", "n", " ", "a", "m", "e", "n", "i", "t", "i", "e", "s", " ", "n", "e", "a", "r", "b", "y">>,
   schools |-> <<"R", "e", "s", "e", "a", "r", "c", "h", " ", "l", "o", "c", "a", "l", " ", "s", "c", "h", "o", "o", "l", " ", "d", "i", "s", "t", "r", "i", "c", "t", "s", " ", "i", "n", " ">> \o C3_City]

\* C3: the fallback insights are the urban variant exactly when the
\* lower-cased city contains 'downtown', 'city' or 'metro', and the suburban
\* variant otherwise; an empty or missing city is replaced by 'Unknown' and
\* yields the suburban variant.
C3_FallbackVariant ==
  fbInsights # NoInsights =>
    /\ fbInsights = IF C3_Urban THEN C3_UrbanVariant ELSE C3_SuburbanVariant
    /\ (fbProperty.city = Undefined \/ fbProperty.city = <<>>) =>
         fbInsights.neighborhood = <<"S", "u", "b", "u", "r", "b", "a", "n", " ", "a", "r", "e", "a", " ", "i", "n", " ", "U", "n", "k", "n", "o", "w", "n">>

\* C3 witness: the urban variant has been returned for a city that contains a
\* term only after lower-casing.
C3_Witness ==
  /\ fbInsights = C3_UrbanVariant
  /\ fbProperty.city = <<"A", " ", "M", "E", "T", "R", "O">>

\* --------------------------------------------------------- search: claims
\* the state the failure of request r leaves
C4_FailureStep(r) ==
  /\ error' # ""
  /\ loading' = FALSE
  /\ listings' = requests[r].listingsBefore

\* a step that issues a request clears the error message
C4_StartStep == Len(requests') = Len(requests) + 1 => error' = ""

\* C4: when the GET /search request of performSearch fails, the error message
\* is non-empty, loading is false and the listings are what they were before
\* that search started; starting a search clears the error message.
C4_SearchFailure ==
  [][/\ \A r \in 1..MaxRequests : SearchFails(r) => C4_FailureStep(r)
     /\ C4_StartStep]_vars

\* empty or white space only
IsBlank(t) == \A i \in 1..Len(t) : t[i] = " "

\* C9: every GET /search request the home page issues, from a form submit or
\* from the search on URL load, carries a non-blank city and a non-blank state.
C9_CityAndStateSent ==
  \A r \in 1..Len(requests) :
    /\ "city" \in DOMAIN requests[r].params
    /\ ~IsBlank(requests[r].params["city"])
    /\ "state_code" \in DOMAIN requests[r].params
    /\ ~IsBlank(requests[r].params["state_code"])

C10_BlankFields == {n \in {"city", "state"} : IsBlank(formData[n])}

\* the step of a submit that does not proceed
C10_Rejected ==
  /\ requests' = requests
  /\ query' = query
  /\ effectPending' = effectPending
  /\ listings' = listings
  /\ loading' = loading
  /\ DOMAIN validationErrors' = C10_BlankFields
  /\ "city" \in C10_BlankFields => validationErrors'["city"] = "Please enter a city"
  /\ "state" \in C10_BlankFields => validationErrors'["state"] = "Please enter a state"

\* C10: a submit whose city or state is empty or only white space issues no
\* GET /search request, does not change the URL, leaves listings and loading
\* unchanged, and sets validationErrors to 'Please enter a city' and 'Please
\* enter a state' for exactly the blank fields.
C10_BlankSubmit == [][(HandleSubmit /\ C10_BlankFields # {}) => C10_Rejected]_vars

\* C10 witness: a submit with a city of white space and a state has been
\* rejected with the city's message alone.
C10_Witness ==
  /\ formData.city = <<" ">>
  /\ formData.state = <<"T">>
  /\ DOMAIN validationErrors = {"city"}
  /\ validationErrors["city"] = CityMessage
  /\ requests = <<>>

\* the form data the claim expects of the query: absent fields become '',
\* an absent search_type becomes 'rent'
C11_Expected ==
  [name \in FieldNames |->
     IF name \in DOMAIN query /\ query[name] # <<>> THEN query[name]
     ELSE IF name = "search_type" THEN <<"r", "e", "n", "t">> ELSE <<>>]

\* the step sets the form data from the query and issues one search with
\* exactly the non-empty fields of that data
C11_Searched ==
  /\ formData' = C11_Expected
  /\ Len(requests') = Len(requests) + 1
  /\ SubSeq(requests', 1, Len(requests)) = requests
  /\ LET sent == requests'[Len(requests')].params
     IN  /\ DOMAIN sent = {ParamName(n) : n \in {m \in FieldNames : C11_Expected[m] # <<>>}}
         /\ \A n \in FieldNames : C11_Expected[n] # <<>> => sent[ParamName(n)] = C11_Expected[n]

\* the step changes nothing of the page and issues no search
C11_Ignored ==
  UNCHANGED <<formData, requests, loading, error, listings, validationErrors>>

\* C11 as stated: when the router query contains at least one of the six
\* fields, the URL-load effect sets the form data from the query and issues a
\* search with exactly that data; when it contains none, the effect changes
\* nothing and issues no search.
C11_AsStated ==
  [][UrlLoadEffect =>
       IF DOMAIN query \cap FieldNames # {} THEN C11_Searched ELSE C11_Ignored]_vars

\* C11 amended: the same, for a query that contains at least one of the six
\* fields with a non-empty value; a query whose fields are all absent or empty
\* changes nothing and issues no search.
C11_UrlLoad ==
  [][UrlLoadEffect =>
       IF \E n \in DOMAIN query \cap FieldNames : query[n] # <<>>
       THEN C11_Searched ELSE C11_Ignored]_vars

\* C11 witness: the effect has run on the query bedrooms=2 and its search is
\* in flight.
C11_Witness ==
  /\ ~effectPending
  /\ query = [bedrooms |-> <<"2">>]
  /\ formData = [city |-> <<>>, state |-> <<>>, bedrooms |-> <<"2">>,
                 max_price |-> <<>>, search_type |-> <<"r", "e", "n", "t">>,
                 property_type |-> <<>>]
  /\ Len(requests) = 1
  /\ requests[1].params = [bedrooms |-> <<"2">>, search_type |-> <<"r", "e", "n", "t">>]

\* the query holding exactly the non-empty fields of the form data
C12_Written ==
  query' = [name \in {n \in FieldNames : formData[n] # <<>>} |-> formData[name]]

\* C12: updateURL writes exactly the non-empty form fields into the query,
\* under the form-field names and with their values, and the URL-load effect
\* run on that query reconstructs the same form data.
C12_RoundTrip ==
  [][/\ UpdateURL => C12_Written
     /\ UrlLoadEffect => formData' = formData]_vars

\* a city with the query string's separators has made the round trip
C12_Witness ==
  /\ ~effectPending
  /\ requests # <<>>
  /\ formData.city = <<"a", "&", "b", "=", "c">>
  /\ formData.search_type = <<"b", "u", "y">>
  /\ query = [city |-> <<"a", "&", "b", "=", "c">>,
              search_type |-> <<"b", "u", "y">>]

\* C13: on a page opened at / and used through its form only, a submit that
\* passes validation issues one GET /search, and the URL-load effect that
\* follows its URL update issues no further one.
C13_OneGetPerSubmit ==
  [][/\ (HandleSubmit /\ DOMAIN ValidateErrors(formData) = {})
          => Len(requests') = Len(requests) + 1
     /\ UrlLoadEffect => requests' = requests]_vars

\* C14: whenever at least one GET /search is in flight, loading is true.
C14_LoadingWhileInFlight == requests # <<>> => loading

\* C15: when the last of several overlapping searches completes and all of
\* them have succeeded, the listings are the response of the search issued
\* last: a response arriving after that of a search issued later leaves the
\* later search's listings in place.
C15_LastIssuedWins ==
  [][\A r \in 1..Len(requests) :
       ( /\ \E ls \in SearchResults : SearchSucceeds(r, ls)
         /\ requests' = <<>>
         /\ requests[r].newer # <<>> )
       => listings' = requests[r].newer[1]]_vars

\* what an edit of the field name does to the validation errors and the rest
C16_Edit(name) ==
  /\ IF name \in DOMAIN validationErrors /\ validationErrors[name] # ""
     THEN /\ DOMAIN validationErrors' = DOMAIN validationErrors
          /\ validationErrors'[name] = ""
          /\ \A k \in DOMAIN validationErrors \ {name} :
               validationErrors'[k] = validationErrors[k]
     ELSE validationErrors' = validationErrors
  /\ listings' = listings
  /\ error' = error
  /\ loading' = loading

\* C16: editing a form field that has a validation error clears the error of
\* that field only; the error of the other field, listings, error and loading
\* are unchanged, and editing a field without a validation error leaves
\* validationErrors unchanged.
C16_InputChange ==
  [][\A name \in DOMAIN FormInputs :
       (\E value \in FormInputs[name] : HandleInputChange(name, value))
         => C16_Edit(name)]_vars

\* after a submit with both fields blank the city has been edited: its error
\* is cleared and the state's error is still shown
C16_Witness ==
  /\ formData.city = <<"A">>
  /\ validationErrors = [city |-> "", state |-> StateMessage]

\* C17: removeSavedProperty(id) removes the entries with that id from the
\* stored list and leaves every other stored entry present and in its
\* relative order; it never adds an entry to the stored list.
C17_RemoveOnly ==
  [][\A id \in Ids : RemoveSavedProperty(id) => StoredList' = OthersOf(StoredList, id)]_vars

\* the fields of a request that are sent to the API
C18_Fields ==
  {"city", "state", "price", "bedrooms", "bathrooms", "square_feet",
   "property_type", "search_type"}

\* C18: a getCachedInsights call answered from the cache gets insights that a
\* request for the same property has stored: a call that made its POST under
\* the same key and got that value agrees with it in city, state, price,
\* bedrooms, bathrooms, square_feet, property_type and search_type.
C18_HitForSameProperty ==
  \A d \in 1..Len(calls) :
    calls[d].post = "none" =>
      \E c \in 1..(d - 1) :
        /\ calls[c].post \in {"ok", "failed"}
        /\ calls[c].key = calls[d].key
        /\ calls[c].value = calls[d].value
        /\ \A f \in C18_Fields : calls[c].property[f] = calls[d].property[f]

====
